---- MODULE Spec2Model ----
(***************************************************************************)
(* safecipher: the Caesar (shift) and Vigenere (polyalphabetic) transforms *)
(* of crypto.c and the command-line front end cli() that validates keys    *)
(* and dispatches to them.                                                 *)
(*                                                                         *)
(* Representation.  A char is a signed 8-bit integer (gcc on x86-64), a C  *)
(* string is a piece of memory: a function from the indices 0..n to chars  *)
(* that holds the terminator 0 somewhere.  A pointer argument is a memory  *)
(* together with an offset into it.  An int is a 32-bit two's complement   *)
(* integer, a long a 64-bit one (LP64).                                    *)
(***************************************************************************)
EXTENDS Integers, Sequences, FiniteSets, TLC

VARIABLES
    \* the library harness: one call of a transform, and its inverse
    range_low, range_high,   \* the symbol range handed to the transform
    key,                     \* the int key of the shift transform
    keyword,                 \* the keyword (a C string) of the polyalphabetic one
    plain_text,              \* the message (a C string)
    cipher_text,             \* the buffer encrypt writes
    decrypted_text,          \* the buffer decrypt writes
    transform,               \* "caesar", "vigenere" (the harness) or "cli"
    pc,                      \* where the harness, or the cli run, stands
    \* one run of cli(argc, argv)
    argc, operation, key_str, message,   \* argc and argv[1..3]
    result_text,             \* cli's char result_text[1024]
    flag,                    \* cli's return value (-1: not returned yet)
    stdout, stderr,          \* what the run printed
    calls                    \* the transform invocations of the run, in order

libvars == <<range_low, range_high, key, keyword, plain_text, cipher_text,
             decrypted_text>>
clivars == <<argc, operation, key_str, message, result_text, flag, stdout,
             stderr, calls>>
vars == <<libvars, transform, pc, clivars>>

(***************************************************************************)
(* Integer types.                                                          *)
(***************************************************************************)
INT_MAX == 2147483647
INT_MIN == -INT_MAX - 1

\* C's remainder a % b for b > 0: truncated division, the sign of a.
CRem(a, b) ==
    LET m == a % b
    IN  IF a >= 0 \/ m = 0 THEN m ELSE m - b

\* C's abs() on a value that is not INT_MIN.
abs(x) == IF x < 0 THEN -x ELSE x

\* The unary minus of caesar_decrypt's -key.  -INT_MIN overflows a signed
\* int, which is undefined: the build either wraps (two's complement
\* negation, also what the sanitizer's recovery does) or traps.
Negate(k) ==
    IF k # INT_MIN
    THEN {[trap |-> FALSE, val |-> -k]}
    ELSE {[trap |-> FALSE, val |-> INT_MIN], [trap |-> TRUE, val |-> 0]}

(***************************************************************************)
(* Memory and C strings.                                                   *)
(***************************************************************************)
\* The memory holding the string literal s (a sequence of non-zero chars).
Mem(s) == [i \in 0..Len(s) |-> IF i < Len(s) THEN s[i + 1] ELSE 0]

\* A zero-initialised buffer of n bytes: char buf[n] = {0}.
Zeroed(n) == [i \in 0..(n - 1) |-> 0]

\* mem[i] = c.
Write(mem, i, c) == (i :> c) @@ mem

\* The first index in lo..hi holding the terminator, -1 if none.
RECURSIVE FirstNul(_, _, _)
FirstNul(mem, lo, hi) ==
    IF lo > hi THEN -1
    ELSE IF lo = hi THEN (IF mem[lo] = 0 THEN lo ELSE -1)
    ELSE LET mid == (lo + hi) \div 2
             l == FirstNul(mem, lo, mid)
         IN  IF l # -1 THEN l ELSE FirstNul(mem, mid + 1, hi)

\* The last index of a memory.
Top(mem) == Cardinality(DOMAIN mem) - 1

\* strlen(mem + off).
strlen(mem, off) == FirstNul(mem, off, Top(mem)) - off

\* The string at mem + off, as the sequence of its symbols.
CStr(mem, off) == [j \in 1..strlen(mem, off) |-> mem[off + j - 1]]

(***************************************************************************)
(* The shift transform.                                                    *)
(***************************************************************************)
\* Line 19: the key reduced to 0..range_size-1.
NormalizeKeyNoOffset(k, range_size) == CRem(k, range_size)
NormalizeKey(k, range_size) == CRem(CRem(k, range_size) + range_size, range_size)

\* Lines 22-25: the symbol written for the symbol c, nk the reduced key.
ShiftSymbolNoWrap(lo, hi, nk, c) ==
    IF lo <= c /\ c <= hi THEN lo + abs(c - lo + nk) ELSE c
ShiftSymbolFromZero(lo, hi, nk, c) ==
    IF lo <= c /\ c <= hi THEN abs(CRem(c - lo + nk, hi - lo + 1)) ELSE c
ShiftSymbol(lo, hi, nk, c) ==
    IF lo <= c /\ c <= hi
    THEN lo + abs(CRem(c - lo + nk, hi - lo + 1))
    ELSE c

\* caesar_encrypt(lo, hi, k, src + soff, dst + doff): the loop writes
\* dst[doff + i] for i < strlen(src + soff), then the terminator.
caesar_encrypt(lo, hi, k, src, soff, dst, doff) ==
    LET plain_text_len == strlen(src, soff)
        range_size == hi - lo + 1
        nk == NormalizeKey(k, range_size)
        loop == [j \in DOMAIN dst |->
                    IF doff <= j /\ j < doff + plain_text_len
                    THEN ShiftSymbol(lo, hi, nk, src[soff + (j - doff)])
                    ELSE dst[j]]
    IN  Write(loop, doff + plain_text_len, 0)

\* caesar_decrypt: caesar_encrypt with -key; the outcomes of the call.
caesar_decrypt(lo, hi, k, src, soff, dst, doff) ==
    { IF n.trap
      THEN [ok |-> FALSE, mem |-> dst]
      ELSE [ok |-> TRUE,
            mem |-> caesar_encrypt(lo, hi, n.val, src, soff, dst, doff)]
      : n \in Negate(k) }

(***************************************************************************)
(* The polyalphabetic transform.  The state of the loop is the keyword     *)
(* index, the output buffer, and whether the run is still alive: with an   *)
(* empty keyword the index update divides by zero, which traps.            *)
(***************************************************************************)
NextIndexAlways(lo, hi, c, index, key_length) == (index + 1) % key_length
\* Lines 47-53 and 67-73: the keyword index after the symbol c.
NextIndex(lo, hi, c, index, key_length) ==
    IF lo <= c /\ c <= hi THEN (index + 1) % key_length ELSE index

VigenereEncryptStepKeyHeld(lo, hi, kw, src, i, st) ==
    LET c == src[i]
    IN  IF lo <= c /\ c <= hi
        THEN [ok |-> strlen(kw, 0) # 0, index |-> st.index,
              mem |-> caesar_encrypt(lo, hi, kw[st.index] - lo, src, i,
                                     st.mem, i)]
        ELSE [ok |-> TRUE, index |-> st.index, mem |-> Write(st.mem, i, c)]
\* Lines 45-53: one iteration of vigenere_encrypt's loop, at position i.
VigenereEncryptStep(lo, hi, kw, src, i, st) ==
    LET c == src[i]
        key_length == strlen(kw, 0)
    IN  IF lo <= c /\ c <= hi
        THEN LET caesar_key == kw[st.index] - lo
                 out == caesar_encrypt(lo, hi, caesar_key, src, i, st.mem, i)
             IN  IF key_length = 0
                 THEN [ok |-> FALSE, index |-> st.index, mem |-> out]
                 ELSE [ok |-> TRUE,
                       index |-> NextIndex(lo, hi, c, st.index, key_length),
                       mem |-> out]
        ELSE [ok |-> TRUE,
              index |-> NextIndex(lo, hi, c, st.index, key_length),
              mem |-> Write(st.mem, i, c)]

\* Lines 66-73: one iteration of vigenere_decrypt's loop.  The key handed
\* to caesar_decrypt is a difference of two chars, never INT_MIN, so the
\* call has one outcome.
VigenereDecryptStep(lo, hi, kw, src, i, st) ==
    LET c == src[i]
        key_length == strlen(kw, 0)
    IN  IF lo <= c /\ c <= hi
        THEN LET caesar_key == kw[st.index] - lo
                 r == CHOOSE o \in caesar_decrypt(lo, hi, caesar_key, src, i,
                                                  st.mem, i) : TRUE
             IN  IF key_length = 0 \/ ~r.ok
                 THEN [ok |-> FALSE, index |-> st.index, mem |-> r.mem]
                 ELSE [ok |-> TRUE,
                       index |-> NextIndex(lo, hi, c, st.index, key_length),
                       mem |-> r.mem]
        ELSE [ok |-> TRUE,
              index |-> NextIndex(lo, hi, c, st.index, key_length),
              mem |-> Write(st.mem, i, c)]

\* The iterations from..to-1 of the loops, in order; the range is halved
\* so that the evaluation depth stays logarithmic in the message length.
RECURSIVE VigenereEncryptLoop(_, _, _, _, _, _, _)
VigenereEncryptLoop(lo, hi, kw, src, from, to, st) ==
    IF from >= to \/ ~st.ok THEN st
    ELSE IF to = from + 1 THEN VigenereEncryptStep(lo, hi, kw, src, from, st)
    ELSE LET mid == (from + to) \div 2
             half == VigenereEncryptLoop(lo, hi, kw, src, from, mid, st)
         IN  IF ~half.ok THEN half
             ELSE VigenereEncryptLoop(lo, hi, kw, src, mid, to, half)

RECURSIVE VigenereDecryptLoop(_, _, _, _, _, _, _)
VigenereDecryptLoop(lo, hi, kw, src, from, to, st) ==
    IF from >= to \/ ~st.ok THEN st
    ELSE IF to = from + 1 THEN VigenereDecryptStep(lo, hi, kw, src, from, st)
    ELSE LET mid == (from + to) \div 2
             half == VigenereDecryptLoop(lo, hi, kw, src, from, mid, st)
         IN  IF ~half.ok THEN half
             ELSE VigenereDecryptLoop(lo, hi, kw, src, mid, to, half)

\* vigenere_encrypt(lo, hi, kw, src, dst): [ok, mem], ok FALSE on a trap.
vigenere_encrypt(lo, hi, kw, src, dst) ==
    LET plain_text_len == strlen(src, 0)
        st == VigenereEncryptLoop(lo, hi, kw, src, 0, plain_text_len,
                                  [ok |-> TRUE, index |-> 0, mem |-> dst])
    IN  IF st.ok
        THEN [ok |-> TRUE, mem |-> Write(st.mem, plain_text_len, 0)]
        ELSE [ok |-> FALSE, mem |-> st.mem]

\* vigenere_decrypt(lo, hi, kw, src, dst).
vigenere_decrypt(lo, hi, kw, src, dst) ==
    LET cipher_text_len == strlen(src, 0)
        st == VigenereDecryptLoop(lo, hi, kw, src, 0, cipher_text_len,
                                  [ok |-> TRUE, index |-> 0, mem |-> dst])
    IN  IF st.ok
        THEN [ok |-> TRUE, mem |-> Write(st.mem, cipher_text_len, 0)]
        ELSE [ok |-> FALSE, mem |-> st.mem]

(***************************************************************************)
(* The command-line front end.                                             *)
(***************************************************************************)
RANGE_LOW == 65      \* 'A'
RANGE_HIGH == 90     \* 'Z'
MessageLimitOffByOne == 1024 + 1
MESSAGE_LIMIT == 1024       \* line 233: strlen(message) >= 1024 is refused
ResultTextOneShort == 1024 - 1
RESULT_TEXT_SIZE == 1024    \* line 239: char result_text[1024]

\* isspace() in the C locale: space, \t, \n, \v, \f, \r.
isspace(c) == c \in {32, 9, 10, 11, 12, 13}
isdigit(c) == 48 <= c /\ c <= 57

NeverWhitespace(str) == FALSE
\* contains_whitespace(str)
contains_whitespace(str) ==
    \E i \in 0..(strlen(str, 0) - 1) : isspace(str[i])

AnyKeyCharacters(str) == TRUE
\* validate_key_characters(str)
validate_key_characters(str) ==
    \A i \in 0..(strlen(str, 0) - 1) :
        ~(str[i] < RANGE_LOW \/ str[i] > RANGE_HIGH)

\* The first index at or after i whose symbol does not satisfy the test.
RECURSIVE SkipSpaces(_, _)
SkipSpaces(str, i) == IF isspace(str[i]) THEN SkipSpaces(str, i + 1) ELSE i
RECURSIVE SkipDigits(_, _)
SkipDigits(str, i) == IF isdigit(str[i]) THEN SkipDigits(str, i + 1) ELSE i

\* The digits str[i..end-1] accumulated as a negative number, the way
\* strtol does, and whether the number still fits an int.  A long is wider
\* than an int: a value that does not fit an int, LONG_MIN and LONG_MAX of
\* an out-of-range conversion included, lies outside [INT_MIN, INT_MAX],
\* which is all that line 154 asks of it.
RECURSIVE Accumulate(_, _, _, _)
Accumulate(str, i, end, acc) ==
    IF i >= end THEN acc
    ELSE LET d == str[i] - 48
         IN  IF ~acc.fits \/ acc.val < (INT_MIN + d + 9) \div 10
             THEN [fits |-> FALSE, val |-> 0]
             ELSE Accumulate(str, i + 1, end,
                             [fits |-> TRUE, val |-> acc.val * 10 - d])

\* strtol(str, &endptr, 10): leading white space, an optional sign, decimal
\* digits.  Without a digit nothing is converted: the value is 0 and endptr
\* is str.  fits: the long value is in [INT_MIN, INT_MAX]; val: the value.
strtol(str) ==
    LET start == SkipSpaces(str, 0)
        negative == str[start] = 45
        first == IF str[start] \in {43, 45} THEN start + 1 ELSE start
        end == SkipDigits(str, first)
        acc == Accumulate(str, first, end, [fits |-> TRUE, val |-> 0])
    IN  IF end = first THEN [endptr |-> 0, fits |-> TRUE, val |-> 0]
        ELSE IF ~acc.fits \/ (~negative /\ acc.val = INT_MIN)
        THEN [endptr |-> end, fits |-> FALSE, val |-> 0]
        ELSE [endptr |-> end, fits |-> TRUE,
              val |-> IF negative THEN acc.val ELSE -acc.val]

WrapKeyNoOffset(key_int, range_size) == CRem(key_int, range_size)
\* Line 161: key_int = (key_int % range_size + range_size) % range_size.
WrapKey(key_int, range_size) ==
    CRem(CRem(key_int, range_size) + range_size, range_size)

\* What a run has done when it returns (or traps): the return value, the
\* buffer, the output streams, the transform calls made.
Outcome(f, text, out, err, made, dead) ==
    [flag |-> f, result_text |-> text, stdout |-> out, stderr |-> err,
     calls |-> made, trapped |-> dead]

PrintedNoNewline(text) == <<CStr(text, 0)>>
\* printf("%s\n", result_text)
Printed(text) == <<CStr(text, 0) \o <<10>>>>

Usage == <<"Usage: <program> <operation> <key> <message>",
           "Permitted operations: vigenere-encrypt, vigenere-decrypt, caesar-encrypt, caesar-decrypt">>

\* handle_vigenere(operation, key_str, message, result_text)
handle_vigenere(op, str, msg, text) ==
    IF ~validate_key_characters(str)
    THEN {Outcome(1, text, <<>>,
                  <<"Key characters must be in the range 'A'->'Z'">>,
                  <<>>, FALSE)}
    ELSE LET encrypting == op = "vigenere-encrypt"
             r == IF encrypting
                  THEN vigenere_encrypt(RANGE_LOW, RANGE_HIGH, str, msg, text)
                  ELSE vigenere_decrypt(RANGE_LOW, RANGE_HIGH, str, msg, text)
             made == <<[fn |-> IF encrypting THEN "vigenere_encrypt"
                                             ELSE "vigenere_decrypt",
                        key |-> CStr(str, 0)]>>
         IN  IF r.ok
             THEN {Outcome(0, r.mem, Printed(r.mem), <<>>, made, FALSE)}
             ELSE {Outcome(-1, r.mem, <<>>, <<>>, made, TRUE)}

\* handle_caesar(operation, key_str, message, result_text)
handle_caesar(op, str, msg, text) ==
    LET parsed == strtol(str)
    IN  IF str[parsed.endptr] # 0 \/ contains_whitespace(str) \/ ~parsed.fits
        THEN {Outcome(1, text, <<>>, <<"Please enter a valid integer key">>,
                      <<>>, FALSE)}
        ELSE LET range_size == RANGE_HIGH - RANGE_LOW + 1
                 key_int == WrapKey(parsed.val, range_size)
             IN  IF op = "caesar-encrypt"
                 THEN LET mem == caesar_encrypt(RANGE_LOW, RANGE_HIGH, key_int,
                                                msg, 0, text, 0)
                      IN  {Outcome(0, mem, Printed(mem), <<>>,
                                   <<[fn |-> "caesar_encrypt", key |-> key_int]>>,
                                   FALSE)}
                 ELSE {IF r.ok
                       THEN Outcome(0, r.mem, Printed(r.mem), <<>>,
                                    <<[fn |-> "caesar_decrypt", key |-> key_int]>>,
                                    FALSE)
                       ELSE Outcome(-1, r.mem, <<>>, <<>>,
                                    <<[fn |-> "caesar_decrypt", key |-> key_int]>>,
                                    TRUE)
                       : r \in caesar_decrypt(RANGE_LOW, RANGE_HIGH, key_int,
                                              msg, 0, text, 0)}

\* cli(argc, argv), argv[1..3] being op, str and msg: the outcomes of a run.
\* The buffer does not exist (<<>>) on the paths that return before line 239.
cli(n, op, str, msg) ==
    IF n # 4
    THEN {Outcome(1, <<>>, <<>>, Usage, <<>>, FALSE)}
    ELSE IF str[0] = 0 \/ msg[0] = 0
    THEN {Outcome(1, <<>>, <<>>, Usage, <<>>, FALSE)}
    ELSE IF strlen(msg, 0) >= MESSAGE_LIMIT
    THEN {Outcome(1, <<>>, <<>>,
                  <<"Error: Message length exceeds maximum allowed size of 1023 characters">>,
                  <<>>, FALSE)}
    ELSE LET text == Zeroed(RESULT_TEXT_SIZE)
         IN  IF op = "vigenere-encrypt" \/ op = "vigenere-decrypt"
             THEN handle_vigenere(op, str, msg, text)
             ELSE IF op = "caesar-encrypt" \/ op = "caesar-decrypt"
             THEN handle_caesar(op, str, msg, text)
             ELSE {Outcome(1, text, <<>>,
                           <<"Invalid operation: <operation>">> \o Usage,
                           <<>>, FALSE)}

(***************************************************************************)
(* The inputs of the library harness.                                      *)
(***************************************************************************)
MaxLen == 3          \* the longest enumerated message
MaxKeywordLen == 2   \* the longest enumerated keyword

\* ' ', '?', 'A', 'B', 'Z'
Alphabet == {32, 63, 65, 66, 90}

\* 'A'..'Z', 'A'..'B', and the 7-bit range 0..127
Ranges == {<<65, 90>>, <<65, 66>>, <<0, 127>>}

HELLOWORLD == <<72, 69, 76, 76, 79, 87, 79, 82, 76, 68>>
KHOORZRUOG == <<75, 72, 79, 79, 82, 90, 82, 85, 79, 71>>
HELLO == <<72, 69, 76, 76, 79>>
KEY == <<75, 69, 89>>

Strings(chars, n) == UNION {[1..k -> chars] : k \in 0..n}

Messages == Strings(Alphabet, MaxLen) \cup {HELLOWORLD, KHOORZRUOG, HELLO}

Keys == {INT_MIN, INT_MIN + 1, -27, -26, -3, -1, 0, 1, 3, 25, 26, 27, 63,
         INT_MAX - 1, INT_MAX}

\* The keywords vigenere's precondition allows for a range: non-empty, every
\* symbol in the range.
Keywords(lo, hi) ==
    {k \in (Strings(Alphabet, MaxKeywordLen) \cup {KEY}) :
        Len(k) > 0 /\ \A i \in 1..Len(k) : lo <= k[i] /\ k[i] <= hi}

CliIdle ==
    /\ argc = 0 /\ operation = "" /\ key_str = Mem(<<>>) /\ message = Mem(<<>>)
    /\ result_text = <<>> /\ flag = -1 /\ stdout = <<>> /\ stderr = <<>>
    /\ calls = <<>>

\* A caller's buffers: as long as the message, terminator included, zeroed.
InitBuffers(m) ==
    /\ plain_text = Mem(m)
    /\ cipher_text = Zeroed(Len(m) + 1)
    /\ decrypted_text = Zeroed(Len(m) + 1)

InitShift ==
    /\ transform = "caesar" /\ pc = "start"
    /\ key \in Keys
    /\ \E r \in Ranges : range_low = r[1] /\ range_high = r[2]
    /\ keyword = Mem(<<>>)
    /\ \E m \in Messages : InitBuffers(m)
    /\ CliIdle

InitPoly ==
    /\ transform = "vigenere" /\ pc = "start"
    /\ \E r \in Ranges :
          /\ range_low = r[1] /\ range_high = r[2]
          /\ \E k \in Keywords(r[1], r[2]) : keyword = Mem(k)
    /\ key = 0
    /\ \E m \in Messages : InitBuffers(m)
    /\ CliIdle

(***************************************************************************)
(* The harness: encrypt the message, decrypt the result; or decrypt the    *)
(* message itself.                                                         *)
(***************************************************************************)
Landed(r, label) == IF r.ok THEN label ELSE "trapped"

ShiftEncrypt ==
    /\ transform = "caesar" /\ pc = "start"
    /\ cipher_text' = caesar_encrypt(range_low, range_high, key,
                                     plain_text, 0, cipher_text, 0)
    /\ pc' = "encrypted"
    /\ UNCHANGED <<range_low, range_high, key, keyword, plain_text,
                   decrypted_text, transform, clivars>>

ShiftDecryptCipher ==
    /\ transform = "caesar" /\ pc = "encrypted"
    /\ \E r \in caesar_decrypt(range_low, range_high, key,
                                cipher_text, 0, decrypted_text, 0) :
          /\ decrypted_text' = r.mem
          /\ pc' = Landed(r, "roundtrip")
    /\ UNCHANGED <<range_low, range_high, key, keyword, plain_text,
                   cipher_text, transform, clivars>>

ShiftDecrypt ==
    /\ transform = "caesar" /\ pc = "start"
    /\ \E r \in caesar_decrypt(range_low, range_high, key,
                                plain_text, 0, decrypted_text, 0) :
          /\ decrypted_text' = r.mem
          /\ pc' = Landed(r, "decrypted")
    /\ UNCHANGED <<range_low, range_high, key, keyword, plain_text,
                   cipher_text, transform, clivars>>

PolyEncrypt ==
    /\ transform = "vigenere" /\ pc = "start"
    /\ LET r == vigenere_encrypt(range_low, range_high, keyword,
                                 plain_text, cipher_text)
       IN  cipher_text' = r.mem /\ pc' = Landed(r, "encrypted")
    /\ UNCHANGED <<range_low, range_high, key, keyword, plain_text,
                   decrypted_text, transform, clivars>>

PolyDecryptCipher ==
    /\ transform = "vigenere" /\ pc = "encrypted"
    /\ LET r == vigenere_decrypt(range_low, range_high, keyword,
                                 cipher_text, decrypted_text)
       IN  decrypted_text' = r.mem /\ pc' = Landed(r, "roundtrip")
    /\ UNCHANGED <<range_low, range_high, key, keyword, plain_text,
                   cipher_text, transform, clivars>>

PolyDecrypt ==
    /\ transform = "vigenere" /\ pc = "start"
    /\ LET r == vigenere_decrypt(range_low, range_high, keyword,
                                 plain_text, decrypted_text)
       IN  decrypted_text' = r.mem /\ pc' = Landed(r, "decrypted")
    /\ UNCHANGED <<range_low, range_high, key, keyword, plain_text,
                   cipher_text, transform, clivars>>

NextShift == ShiftEncrypt \/ ShiftDecryptCipher \/ ShiftDecrypt
NextPoly == PolyEncrypt \/ PolyDecryptCipher \/ PolyDecrypt

SpecShift == InitShift /\ [][NextShift]_vars
SpecPoly == InitPoly /\ [][NextPoly]_vars

InitLib == InitShift \/ InitPoly
NextLib == NextShift \/ NextPoly
SpecLib == InitLib /\ [][NextLib]_vars

(***************************************************************************)
(* One run of cli.                                                         *)
(***************************************************************************)
MaxKeyStrLen == 2    \* the longest enumerated key string

\* '1', '-', '+', ' ', 'a', 'A'
KeyAlphabet == {49, 45, 43, 32, 97, 65}

\* "12a", " 5", "5 ", "0x10", "-3", "\t5", "007", "26", "KEY", "Key", "AZ",
\* INT_MAX, INT_MAX + 1, INT_MIN, INT_MIN - 1, and twenty nines
SpecialKeyStrings ==
    { <<49, 50, 97>>, <<32, 53>>, <<53, 32>>, <<48, 120, 49, 48>>,
      <<45, 51>>, <<9, 53>>, <<48, 48, 55>>, <<50, 54>>,
      <<75, 69, 89>>, <<75, 101, 121>>, <<65, 90>>,
      <<50, 49, 52, 55, 52, 56, 51, 54, 52, 55>>,
      <<50, 49, 52, 55, 52, 56, 51, 54, 52, 56>>,
      <<45, 50, 49, 52, 55, 52, 56, 51, 54, 52, 56>>,
      <<45, 50, 49, 52, 55, 52, 56, 51, 54, 52, 57>>,
      [i \in 1..20 |-> 57] }

KeyStrings == Strings(KeyAlphabet, MaxKeyStrLen) \cup SpecialKeyStrings

\* A message of n symbols: letters, a space at every seventh position.
LongMessage(n) == [i \in 1..n |-> IF i % 7 = 0 THEN 32 ELSE 65 + (i % 26)]

\* "", "A", "A B", "hello", "Az!", "HELLO", "HELLOWORLD", and messages at
\* the length limit
CliMessages ==
    { <<>>, <<65>>, <<65, 32, 66>>, <<104, 101, 108, 108, 111>>,
      <<65, 122, 33>>, HELLO, HELLOWORLD,
      LongMessage(1023), LongMessage(1024) }

Operations == {"caesar-encrypt", "caesar-decrypt", "vigenere-encrypt",
               "vigenere-decrypt", "rot13", ""}

ArgCounts == {3, 4, 5}

LibIdle ==
    /\ range_low = RANGE_LOW /\ range_high = RANGE_HIGH /\ key = 0
    /\ keyword = Mem(<<>>) /\ plain_text = Mem(<<>>)
    /\ cipher_text = Zeroed(1) /\ decrypted_text = Zeroed(1)

InitCli ==
    /\ transform = "cli" /\ pc = "start"
    /\ argc \in ArgCounts
    /\ operation \in Operations
    /\ \E k \in KeyStrings : key_str = Mem(k)
    /\ \E m \in CliMessages : message = Mem(m)
    /\ result_text = <<>> /\ flag = -1 /\ stdout = <<>> /\ stderr = <<>>
    /\ calls = <<>>
    /\ LibIdle

\* The run, from the call of cli to its return.
Cli ==
    /\ transform = "cli" /\ pc = "start"
    /\ \E o \in cli(argc, operation, key_str, message) :
          /\ flag' = o.flag
          /\ result_text' = o.result_text
          /\ stdout' = o.stdout
          /\ stderr' = o.stderr
          /\ calls' = o.calls
          /\ pc' = IF o.trapped THEN "trapped" ELSE "returned"
    /\ UNCHANGED <<libvars, transform, argc, operation, key_str, message>>

NextCli == Cli
SpecCli == InitCli /\ [][NextCli]_vars

(***************************************************************************)
(* Properties of the transforms.                                           *)
(***************************************************************************)
InRange(c) == range_low <= c /\ c <= range_high
RangeSize == range_high - range_low + 1
IsCaesar == transform = "caesar"
IsVigenere == transform = "vigenere"

\* The buffer dst holds a string exactly as long as the string in src.
SameLength(src, dst) ==
    LET n == strlen(src, 0)
    IN  dst[n] = 0 /\ \A i \in 0..(n - 1) : dst[i] # 0

\* C1: decrypting, with the same range and int key, what caesar_encrypt
\* wrote gives back the message, for every range, every int key (INT_MIN
\* and INT_MAX included) and every message.
C1_ShiftRoundTrip ==
    (IsCaesar /\ pc = "roundtrip")
        => CStr(decrypted_text, 0) = CStr(plain_text, 0)

\* C2: decrypting, with the same range and valid keyword, what
\* vigenere_encrypt wrote gives back the message exactly.
C2_PolyRoundTrip ==
    (IsVigenere /\ pc = "roundtrip")
        => CStr(decrypted_text, 0) = CStr(plain_text, 0)

\* C3: the output of each of the four transforms, read as a C string, is as
\* long as its input: the terminator sits at index len(input) and at no
\* earlier position.
C3_LengthPreserved ==
    /\ pc = "encrypted" => SameLength(plain_text, cipher_text)
    /\ pc = "decrypted" => SameLength(plain_text, decrypted_text)
    /\ pc = "roundtrip" => SameLength(cipher_text, decrypted_text)

\* The symbols outside the range are copied to the same position.
PassThrough(src, dst) ==
    \A i \in 0..(strlen(src, 0) - 1) : ~InRange(src[i]) => dst[i] = src[i]

\* The number of in-range symbols of src before position i.
InRangeBefore(src, i) == Cardinality({p \in 0..(i - 1) : InRange(src[p])})

\* Each in-range symbol at position i is shifted by the keyword symbol
\* keyword[j mod len(keyword)], j the number of in-range symbols before i
\* (sign: 1 for encrypt, -1 for decrypt).
KeywordCycles(src, dst, sign) ==
    \A i \in 0..(strlen(src, 0) - 1) :
        InRange(src[i]) =>
            LET j == InRangeBefore(src, i)
                k == keyword[j % strlen(keyword, 0)]
            IN  dst[i] = range_low
                + ((src[i] - range_low + sign * (k - range_low)) % RangeSize)

\* C4: in every transform a symbol outside the range appears unchanged at
\* the same position of the output, and in the vigenere transforms it does
\* not advance the keyword index: the keyword symbol used for an in-range
\* symbol is keyword[j mod len(keyword)], j counting only the in-range
\* symbols before it.
C4_PassThrough ==
    /\ pc = "encrypted" =>
          /\ PassThrough(plain_text, cipher_text)
          /\ IsVigenere => KeywordCycles(plain_text, cipher_text, 1)
    /\ pc = "decrypted" =>
          /\ PassThrough(plain_text, decrypted_text)
          /\ IsVigenere => KeywordCycles(plain_text, decrypted_text, -1)
    /\ pc = "roundtrip" =>
          /\ PassThrough(cipher_text, decrypted_text)
          /\ IsVigenere => KeywordCycles(cipher_text, decrypted_text, -1)

\* "A B" under the keyword "BZ": the space is copied and the second letter
\* is shifted by the second keyword symbol.
C4_Witness ==
    /\ IsVigenere /\ pc = "encrypted"
    /\ range_low = 65 /\ range_high = 90
    /\ CStr(keyword, 0) = <<66, 90>>
    /\ CStr(plain_text, 0) = <<65, 32, 66>>
    /\ CStr(cipher_text, 0) = <<66, 32, 65>>

\* C5: caesar_encrypt writes, for the in-range symbol c at position i, the
\* symbol range_low + ((c - range_low + nk) mod range_size), nk the key
\* reduced to 0..range_size-1 by the mathematical modulo; range 'A'..'Z',
\* key 3 turns "HELLOWORLD" into "KHOORZRUOG".
C5_ShiftRule ==
    (IsCaesar /\ pc = "encrypted") =>
        /\ \A i \in 0..(strlen(plain_text, 0) - 1) :
              InRange(plain_text[i]) =>
                  cipher_text[i] = range_low
                      + ((plain_text[i] - range_low + (key % RangeSize))
                         % RangeSize)
        /\ (range_low = 65 /\ range_high = 90 /\ key = 3
            /\ CStr(plain_text, 0) = HELLOWORLD)
               => CStr(cipher_text, 0) = KHOORZRUOG

C5_Witness ==
    /\ IsCaesar /\ pc = "encrypted"
    /\ range_low = 65 /\ range_high = 90 /\ key = 3
    /\ CStr(plain_text, 0) = HELLOWORLD
    /\ CStr(cipher_text, 0) = KHOORZRUOG

MaxN == 2            \* the multiples n of the range size tried: -MaxN..MaxN
BigN == 16000000     \* and a multiple that spans most of the int range
Multiples == (-MaxN..MaxN) \cup {-BigN, BigN}

\* k + d is representable as an int.
Representable(k, d) ==
    IF d >= 0 THEN k <= INT_MAX - d ELSE k >= INT_MIN - d

\* C6: caesar_encrypt with key and with key + n * range_size write the same
\* output, for every n (negative too) for which the sum is an int.
C6_KeyPeriodic ==
    (IsCaesar /\ pc = "encrypted") =>
        \A n \in Multiples :
            Representable(key, n * RangeSize) =>
                caesar_encrypt(range_low, range_high, key + n * RangeSize,
                               plain_text, 0,
                               Zeroed(strlen(plain_text, 0) + 1), 0)
                    = cipher_text

\* "A" under key -3 is "X", as under key 23.
C6_Witness ==
    /\ IsCaesar /\ pc = "encrypted"
    /\ range_low = 65 /\ range_high = 90 /\ key = -3
    /\ CStr(plain_text, 0) = <<65>>
    /\ CStr(cipher_text, 0) = <<88>>

(***************************************************************************)
(* Properties of the command-line front end.                               *)
(***************************************************************************)
IsCli == transform = "cli"
Ended == IsCli /\ pc # "start"
CaesarOps == {"caesar-encrypt", "caesar-decrypt"}
VigenereOps == {"vigenere-encrypt", "vigenere-decrypt"}
KeyGiven == CStr(key_str, 0)
MessageGiven == CStr(message, 0)

\* s is an optional sign followed by one or more decimal digits.
Unsigned(s) == IF Len(s) > 0 /\ s[1] \in {43, 45} THEN Tail(s) ELSE s
WellFormedInt(s) ==
    /\ Len(Unsigned(s)) > 0
    /\ \A i \in 1..Len(Unsigned(s)) : Unsigned(s)[i] \in 48..57

\* The digits of s without the leading zeros.
Significant(s) ==
    LET body == Unsigned(s)
        nz == {i \in 1..Len(body) : body[i] # 48}
    IN  IF nz = {} THEN <<>>
        ELSE SubSeq(body, CHOOSE i \in nz : \A j \in nz : i <= j, Len(body))

\* a <= b for digit strings of one length.
DigitsAtMost(a, b) ==
    a = b \/ \E i \in 1..Len(a) :
                a[i] < b[i] /\ \A j \in 1..(i - 1) : a[j] = b[j]

\* The number the well-formed s denotes lies in [INT_MIN, INT_MAX]:
\* -2147483648 .. 2147483647.
DenotesInt(s) ==
    LET sig == Significant(s)
        limit == IF s[1] = 45
                 THEN <<50, 49, 52, 55, 52, 56, 51, 54, 52, 56>>
                 ELSE <<50, 49, 52, 55, 52, 56, 51, 54, 52, 55>>
    IN  Len(sig) < 10 \/ (Len(sig) = 10 /\ DigitsAtMost(sig, limit))

ValidIntKey(s) == WellFormedInt(s) /\ DenotesInt(s)

\* The number the well-formed s denotes, modulo m.
RECURSIVE DigitsMod(_, _, _, _)
DigitsMod(body, i, acc, m) ==
    IF i > Len(body) THEN acc
    ELSE DigitsMod(body, i + 1, (acc * 10 + (body[i] - 48)) % m, m)
ValueMod(s, m) ==
    LET r == DigitsMod(Unsigned(s), 1, 0, m)
    IN  IF s[1] = 45 THEN (m - r) % m ELSE r

ValidKeyword(k) == Len(k) > 0 /\ \A i \in 1..Len(k) : k[i] \in 65..90

\* The message is one cli hands on: not empty, at most 1023 symbols.
MessageFits == Len(MessageGiven) > 0 /\ Len(MessageGiven) <= 1023

\* C7: in a caesar run of cli a key string that is not an optional sign
\* followed by decimal digits, or that denotes a number outside
\* [INT_MIN, INT_MAX], is rejected: cli returns 1 and calls no transform;
\* a well-formed key string in that range is accepted.
C7_IntegerKeyValidation ==
    (Ended /\ argc = 4 /\ operation \in CaesarOps) =>
        /\ ~ValidIntKey(KeyGiven) =>
              pc = "returned" /\ flag = 1 /\ calls = <<>>
        /\ (ValidIntKey(KeyGiven) /\ MessageFits) =>
              pc = "returned" /\ flag = 0 /\ Len(calls) = 1

\* " 5" is rejected.
C7_Witness ==
    /\ Ended /\ argc = 4 /\ operation = "caesar-encrypt"
    /\ KeyGiven = <<32, 53>> /\ MessageGiven = HELLO
    /\ flag = 1 /\ calls = <<>>

\* C8: the key cli hands to caesar_encrypt or caesar_decrypt is in 0..25 and
\* congruent modulo 26 to the number the key string denotes.
C8_KeyNormalized ==
    IsCli =>
        \A i \in 1..Len(calls) :
            calls[i].fn \in {"caesar_encrypt", "caesar_decrypt"} =>
                /\ 0 <= calls[i].key /\ calls[i].key < 26
                /\ calls[i].key = ValueMod(KeyGiven, 26)

\* "-3" is handed on as 23.
C8_Witness ==
    /\ Ended /\ argc = 4 /\ operation = "caesar-decrypt"
    /\ KeyGiven = <<45, 51>> /\ MessageGiven = HELLO
    /\ flag = 0 /\ calls = <<[fn |-> "caesar_decrypt", key |-> 23]>>

\* C9: in a vigenere run of cli an empty keyword, or one with a symbol
\* outside 'A'..'Z', is rejected with return value 1; the keyword of every
\* vigenere_encrypt or vigenere_decrypt call cli makes is non-empty with all
\* its symbols in 'A'..'Z'.
C9_KeywordValidation ==
    Ended =>
        /\ (argc = 4 /\ operation \in VigenereOps /\ ~ValidKeyword(KeyGiven))
              => pc = "returned" /\ flag = 1 /\ calls = <<>>
        /\ \A i \in 1..Len(calls) :
              calls[i].fn \in {"vigenere_encrypt", "vigenere_decrypt"} =>
                  ValidKeyword(calls[i].key)

\* "Key" is rejected.
C9_Witness ==
    /\ Ended /\ argc = 4 /\ operation = "vigenere-encrypt"
    /\ KeyGiven = <<75, 101, 121>> /\ MessageGiven = HELLO
    /\ flag = 1 /\ calls = <<>>

\* The run is one that has to succeed.
Succeeds ==
    /\ argc = 4
    /\ Len(KeyGiven) > 0
    /\ MessageFits
    /\ \/ operation \in CaesarOps /\ ValidIntKey(KeyGiven)
       \/ operation \in VigenereOps /\ ValidKeyword(KeyGiven)

\* C10: cli returns 0 exactly when argc is 4, key and message are not
\* empty, the message has at most 1023 symbols, the operation is one of the
\* four and the key passes that operation's validator; otherwise it returns
\* 1, and it never returns anything else.
C10_ExitCodes ==
    Ended =>
        /\ pc = "returned"
        /\ flag \in {0, 1}
        /\ flag = 0 <=> Succeeds

\* A message of 1024 symbols is refused, with a valid keyword.
C10_Witness ==
    /\ Ended /\ argc = 4 /\ operation = "vigenere-encrypt"
    /\ KeyGiven = KEY /\ Len(MessageGiven) = 1024
    /\ flag = 1

\* The message shifted symbol by symbol over 'A'..'Z': by k, or, with a
\* keyword kw, by sign times the keyword symbol the in-range symbols before
\* the position select.
ExpectedShift(msg, k) ==
    [i \in 1..Len(msg) |->
        IF msg[i] \in 65..90 THEN 65 + ((msg[i] - 65 + k) % 26) ELSE msg[i]]
ExpectedPoly(msg, kw, sign) ==
    [i \in 1..Len(msg) |->
        IF msg[i] \in 65..90
        THEN LET j == Cardinality({p \in 1..(i - 1) : msg[p] \in 65..90})
             IN  65 + ((msg[i] - 65 + sign * (kw[(j % Len(kw)) + 1] - 65))
                       % 26)
        ELSE msg[i]]

\* What the operation of the run makes of the message.
Transformed ==
    CASE operation = "caesar-encrypt" ->
             ExpectedShift(MessageGiven, ValueMod(KeyGiven, 26))
      [] operation = "caesar-decrypt" ->
             ExpectedShift(MessageGiven, -ValueMod(KeyGiven, 26))
      [] operation = "vigenere-encrypt" ->
             ExpectedPoly(MessageGiven, KeyGiven, 1)
      [] operation = "vigenere-decrypt" ->
             ExpectedPoly(MessageGiven, KeyGiven, -1)

\* C11: a run of cli that returns 1 has called no transform, has written
\* nothing to standard output and at least one line to standard error; a
\* run that returns 0 has written to standard output the transformed
\* message followed by one newline, and nothing else.
C11_FailureDiscipline ==
    Ended =>
        /\ flag = 1 => calls = <<>> /\ stdout = <<>> /\ Len(stderr) >= 1
        /\ flag = 0 => stdout = <<Transformed \o <<10>>>>

\* The key "12a" is refused with one line on standard error.
C11_Witness ==
    /\ Ended /\ argc = 4 /\ operation = "caesar-decrypt"
    /\ KeyGiven = <<49, 50, 97>> /\ MessageGiven = HELLO
    /\ flag = 1 /\ calls = <<>> /\ stdout = <<>>
    /\ stderr = <<"Please enter a valid integer key">>

(***************************************************************************)
(* The polyalphabetic transform as the algorithm on single symbols.        *)
(***************************************************************************)
\* The shift of the one in-range symbol c by offset.
ShiftOne(c, offset) == range_low + ((c - range_low + offset) % RangeSize)

\* The algorithm on the symbols msg that are left, k_idx the keyword index
\* so far (sign: 1 to encrypt, -1 to decrypt).
RECURSIVE SingleSymbol(_, _, _, _)
SingleSymbol(msg, kw, sign, k_idx) ==
    IF msg = <<>> THEN <<>>
    ELSE IF InRange(Head(msg))
    THEN <<ShiftOne(Head(msg), sign * (kw[k_idx + 1] - range_low))>>
         \o SingleSymbol(Tail(msg), kw, sign, (k_idx + 1) % Len(kw))
    ELSE <<Head(msg)>> \o SingleSymbol(Tail(msg), kw, sign, k_idx)

\* dst holds what the algorithm makes of the string in src, terminated.
SameAsSingleSymbol(src, dst, sign) ==
    LET n == strlen(src, 0)
        out == SingleSymbol(CStr(src, 0), CStr(keyword, 0), sign, 0)
    IN  /\ \A i \in 0..(n - 1) : dst[i] = out[i + 1]
        /\ dst[n] = 0

\* C12: what vigenere_encrypt and vigenere_decrypt leave in the output
\* buffer, calling caesar_encrypt and caesar_decrypt on the suffix at each
\* in-range position, is what the algorithm on single symbols produces,
\* for every valid keyword and every message.
C12_SuffixCallsRefine ==
    IsVigenere =>
        /\ pc = "encrypted" => SameAsSingleSymbol(plain_text, cipher_text, 1)
        /\ pc = "decrypted" =>
              SameAsSingleSymbol(plain_text, decrypted_text, -1)
        /\ pc = "roundtrip" =>
              SameAsSingleSymbol(cipher_text, decrypted_text, -1)

\* "AZ?" under the keyword "BA": the suffix call at position 0 writes
\* "BA?", the later iterations leave "BZ?".
C12_Witness ==
    /\ IsVigenere /\ pc = "encrypted"
    /\ range_low = 65 /\ range_high = 90
    /\ CStr(keyword, 0) = <<66, 65>>
    /\ CStr(plain_text, 0) = <<65, 90, 63>>
    /\ CStr(cipher_text, 0) = <<66, 90, 63>>
    /\ caesar_encrypt(range_low, range_high, 1, plain_text, 0,
                      Zeroed(4), 0) = Mem(<<66, 65, 63>>)

(***************************************************************************)
(* The arithmetic of the shift transform, each step's exact result against *)
(* the int range.                                                          *)
(***************************************************************************)
\* -k is an int: -k <= INT_MAX, that is k >= -INT_MAX (line 34).
NegationFits(k) == k >= -INT_MAX

\* Line 19, key % range_size + range_size, and line 24, c - range_low + key
\* with the reduced key, for every symbol c of the string in src.
EncryptArithmeticFits(k, src) ==
    LET r == CRem(k, RangeSize)
        nk == NormalizeKey(k, RangeSize)
    IN  /\ Representable(r, RangeSize)
        /\ 0 <= nk /\ nk < RangeSize
        /\ \A i \in 0..(strlen(src, 0) - 1) :
              /\ Representable(src[i], -range_low)
              /\ Representable(src[i] - range_low, nk)

\* caesar_decrypt(key) on src: the negation, then caesar_encrypt with what
\* the negation gave.
DecryptArithmeticFits(k, src) ==
    /\ NegationFits(k)
    /\ \A n \in Negate(k) : ~n.trap => EncryptArithmeticFits(n.val, src)

\* C13: for every int key (INT_MIN and INT_MAX included) and every range,
\* no arithmetic step of caesar_encrypt or caesar_decrypt (the negation of
\* the key, key % range_size + range_size, c - range_low + key) leaves the
\* int range, and the reduced key is in 0..range_size-1.
C13_NoOverflow ==
    IsCaesar =>
        /\ pc = "encrypted" => EncryptArithmeticFits(key, plain_text)
        /\ pc = "decrypted" => DecryptArithmeticFits(key, plain_text)
        /\ pc = "roundtrip" => DecryptArithmeticFits(key, cipher_text)
        /\ pc = "trapped" => NegationFits(key)

(***************************************************************************)
(* The writes of the transforms to the output buffer, in program order:    *)
(* one record per execution of an assignment to cipher_text[...] or        *)
(* plain_text[...], with the index written, relative to the buffer the     *)
(* outermost call was given, and the value.                                *)
(***************************************************************************)
\* caesar_encrypt(lo, hi, k, src + soff, dst + doff): line 26 once for each
\* symbol of the string, then line 28.
caesar_encrypt_writes(lo, hi, k, src, soff, doff) ==
    LET plain_text_len == strlen(src, soff)
        nk == NormalizeKey(k, hi - lo + 1)
    IN  [j \in 1..plain_text_len |->
            [at |-> doff + j - 1,
             val |-> ShiftSymbol(lo, hi, nk, src[soff + j - 1])]]
        \o <<[at |-> doff + plain_text_len, val |-> 0]>>

\* caesar_decrypt: the writes of each outcome, none where the negation
\* traps.
caesar_decrypt_writes(lo, hi, k, src, soff, doff) ==
    { IF n.trap THEN <<>>
      ELSE caesar_encrypt_writes(lo, hi, n.val, src, soff, doff)
      : n \in Negate(k) }

\* The iterations i..n-1 of vigenere_encrypt's loop: the writes of the
\* nested call (line 49), or the one write of line 52.
RECURSIVE VigenereEncryptWrites(_, _, _, _, _, _, _)
VigenereEncryptWrites(lo, hi, kw, src, i, n, index) ==
    IF i >= n THEN <<>>
    ELSE LET c == src[i]
             key_length == strlen(kw, 0)
         IN  IF lo <= c /\ c <= hi
             THEN caesar_encrypt_writes(lo, hi, kw[index] - lo, src, i, i)
                  \o (IF key_length = 0 THEN <<>>
                      ELSE VigenereEncryptWrites(
                               lo, hi, kw, src, i + 1, n,
                               NextIndex(lo, hi, c, index, key_length)))
             ELSE <<[at |-> i, val |-> c]>>
                  \o VigenereEncryptWrites(
                         lo, hi, kw, src, i + 1, n,
                         NextIndex(lo, hi, c, index, key_length))

\* The same for vigenere_decrypt (lines 69 and 72).
RECURSIVE VigenereDecryptWrites(_, _, _, _, _, _, _)
VigenereDecryptWrites(lo, hi, kw, src, i, n, index) ==
    IF i >= n THEN <<>>
    ELSE LET c == src[i]
             key_length == strlen(kw, 0)
         IN  IF lo <= c /\ c <= hi
             THEN (CHOOSE w \in caesar_decrypt_writes(lo, hi, kw[index] - lo,
                                                      src, i, i) : TRUE)
                  \o (IF key_length = 0 THEN <<>>
                      ELSE VigenereDecryptWrites(
                               lo, hi, kw, src, i + 1, n,
                               NextIndex(lo, hi, c, index, key_length)))
             ELSE <<[at |-> i, val |-> c]>>
                  \o VigenereDecryptWrites(
                         lo, hi, kw, src, i + 1, n,
                         NextIndex(lo, hi, c, index, key_length))

\* The loop, then the terminator of line 55 (line 75).
vigenere_encrypt_writes(lo, hi, kw, src) ==
    LET plain_text_len == strlen(src, 0)
    IN  VigenereEncryptWrites(lo, hi, kw, src, 0, plain_text_len, 0)
        \o <<[at |-> plain_text_len, val |-> 0]>>
vigenere_decrypt_writes(lo, hi, kw, src) ==
    LET cipher_text_len == strlen(src, 0)
    IN  VigenereDecryptWrites(lo, hi, kw, src, 0, cipher_text_len, 0)
        \o <<[at |-> cipher_text_len, val |-> 0]>>

\* The buffer after the writes of log, made in order.
RECURSIVE Replay(_, _)
Replay(log, mem) ==
    IF log = <<>> THEN mem
    ELSE Replay(Tail(log), Write(mem, Head(log).at, Head(log).val))

\* The writes of the call that read src: the encrypting or the decrypting
\* transform of the harness, one sequence for each outcome of the call.
LastCallWrites(src, encrypting) ==
    IF IsCaesar
    THEN IF encrypting
         THEN {caesar_encrypt_writes(range_low, range_high, key, src, 0, 0)}
         ELSE caesar_decrypt_writes(range_low, range_high, key, src, 0, 0)
    ELSE IF encrypting
         THEN {vigenere_encrypt_writes(range_low, range_high, keyword, src)}
         ELSE {vigenere_decrypt_writes(range_low, range_high, keyword, src)}

\* The output buffer of a harness call is what the writes of the call, in
\* the outcome that was taken, leave in a zeroed buffer of the size of the
\* input.
WritesGiveBuffer ==
    /\ pc = "encrypted" =>
          \E w \in LastCallWrites(plain_text, TRUE) :
              Replay(w, Zeroed(Top(plain_text) + 1)) = cipher_text
    /\ pc = "decrypted" =>
          \E w \in LastCallWrites(plain_text, FALSE) :
              Replay(w, Zeroed(Top(plain_text) + 1)) = decrypted_text
    /\ pc = "roundtrip" =>
          \E w \in LastCallWrites(cipher_text, FALSE) :
              Replay(w, Zeroed(Top(cipher_text) + 1)) = decrypted_text

(***************************************************************************)
(* The transforms on buffers of exactly the size of the input, and runs of *)
(* cli around the limit of the message length.                             *)
(***************************************************************************)
LimitKeyStrings == {<<51>>, KEY}
LimitMessages == {HELLOWORLD, LongMessage(1023), LongMessage(1024)}

InitCliLimit ==
    /\ transform = "cli" /\ pc = "start"
    /\ argc = 4
    /\ operation \in CaesarOps \cup VigenereOps
    /\ \E k \in LimitKeyStrings : key_str = Mem(k)
    /\ \E m \in LimitMessages : message = Mem(m)
    /\ result_text = <<>> /\ flag = -1 /\ stdout = <<>> /\ stderr = <<>>
    /\ calls = <<>>
    /\ LibIdle

InitBuffersSpec == InitLib \/ InitCliLimit
NextBuffers == NextLib \/ NextCli
SpecBuffers == InitBuffersSpec /\ [][NextBuffers]_vars

\* Every write of log goes to an index in 0..n, and to n only the
\* terminator.
WritesInBounds(log, n) ==
    \A j \in 1..Len(log) :
        /\ 0 <= log[j].at /\ log[j].at <= n
        /\ log[j].at = n => log[j].val = 0

\* C14: every write of a transform call on a message of length n, those of
\* the nested calls on suffixes included, goes to an output index in 0..n,
\* and index n receives only the terminator: the output buffer of n + 1
\* bytes is not left.  In every run of cli the writes to result_text stay
\* within its 1024 bytes, indices 0..1023.
C14_WritesInBounds ==
    /\ pc = "encrypted" =>
          /\ \A w \in LastCallWrites(plain_text, TRUE) :
                WritesInBounds(w, strlen(plain_text, 0))
          /\ DOMAIN cipher_text = 0..Top(plain_text)
    /\ pc = "decrypted" =>
          /\ \A w \in LastCallWrites(plain_text, FALSE) :
                WritesInBounds(w, strlen(plain_text, 0))
          /\ DOMAIN decrypted_text = 0..Top(plain_text)
    /\ pc = "roundtrip" =>
          /\ \A w \in LastCallWrites(cipher_text, FALSE) :
                WritesInBounds(w, strlen(cipher_text, 0))
          /\ DOMAIN decrypted_text = 0..Top(plain_text)
    /\ (Ended /\ result_text # <<>>) =>
          DOMAIN result_text = 0..(RESULT_TEXT_SIZE - 1)

\* A message of 1023 symbols under the keyword "KEY": the last symbol is
\* written at index 1022 and the terminator at index 1023, the last byte
\* of result_text.
C14_Witness ==
    /\ Ended /\ operation = "vigenere-encrypt" /\ KeyGiven = KEY
    /\ Len(MessageGiven) = 1023
    /\ flag = 0
    /\ result_text[1022] # 0 /\ result_text[1023] = 0
    /\ DOMAIN result_text = 0..1023

\* log writes each of the positions 0..n exactly once, n + 1 writes in all.
OnePass(log, n) ==
    /\ Len(log) = n + 1
    /\ \A p \in 0..n : Cardinality({j \in 1..Len(log) : log[j].at = p}) = 1

\* C15: a call of vigenere_encrypt or vigenere_decrypt on a message of
\* length n writes every output position 0..n exactly once, n + 1 symbol
\* writes in all.
C15_SinglePass ==
    IsVigenere =>
        /\ pc = "encrypted" =>
              OnePass(vigenere_encrypt_writes(range_low, range_high, keyword,
                                              plain_text),
                      strlen(plain_text, 0))
        /\ pc = "decrypted" =>
              OnePass(vigenere_decrypt_writes(range_low, range_high, keyword,
                                              plain_text),
                      strlen(plain_text, 0))
        /\ pc = "roundtrip" =>
              OnePass(vigenere_decrypt_writes(range_low, range_high, keyword,
                                              cipher_text),
                      strlen(cipher_text, 0))

(***************************************************************************)
(* Range membership.                                                       *)
(***************************************************************************)
\* Position by position of the string in src: an in-range symbol becomes a
\* symbol of the range in dst, a symbol outside the range is the same in
\* dst; so the in-range positions of dst are those of src.
MembershipKept(src, dst) ==
    LET n == strlen(src, 0)
    IN  /\ \A i \in 0..(n - 1) :
              IF InRange(src[i]) THEN InRange(dst[i]) ELSE dst[i] = src[i]
        /\ {i \in 0..(n - 1) : InRange(dst[i])}
               = {i \in 0..(n - 1) : InRange(src[i])}

\* The keyword index with which the loop of vigenere_encrypt on plain_text
\* (vigenere_decrypt on cipher_text) enters iteration i.
EncryptIndexAt(i) ==
    VigenereEncryptLoop(range_low, range_high, keyword, plain_text, 0, i,
                        [ok |-> TRUE, index |-> 0,
                         mem |-> Zeroed(Top(plain_text) + 1)]).index
DecryptIndexAt(i) ==
    VigenereDecryptLoop(range_low, range_high, keyword, cipher_text, 0, i,
                        [ok |-> TRUE, index |-> 0,
                         mem |-> Zeroed(Top(cipher_text) + 1)]).index

\* C16: each of the four transforms maps, position by position, an in-range
\* symbol to a symbol in [range_low, range_high] and a symbol outside the
\* range to itself, so the in-range positions of the output are those of
\* the input, for every range, key, valid keyword and message; and
\* vigenere_decrypt, at each position of the cipher text it reads, uses the
\* keyword index vigenere_encrypt used there on the message.
C16_RangeMembership ==
    /\ pc = "encrypted" => MembershipKept(plain_text, cipher_text)
    /\ pc = "decrypted" => MembershipKept(plain_text, decrypted_text)
    /\ pc = "roundtrip" =>
          /\ MembershipKept(cipher_text, decrypted_text)
          /\ IsVigenere =>
                \A i \in 0..(strlen(cipher_text, 0) - 1) :
                    InRange(cipher_text[i]) =>
                        DecryptIndexAt(i) = EncryptIndexAt(i)

\* "A?Z" under the keyword "BZ" is "B?Y"; decrypting it, the loop is at
\* keyword index 1 at position 2, as it was when encrypting.
C16_Witness ==
    /\ IsVigenere /\ pc = "roundtrip"
    /\ range_low = 65 /\ range_high = 90
    /\ CStr(keyword, 0) = <<66, 90>>
    /\ CStr(plain_text, 0) = <<65, 63, 90>>
    /\ CStr(cipher_text, 0) = <<66, 63, 89>>
    /\ CStr(decrypted_text, 0) = <<65, 63, 90>>
    /\ EncryptIndexAt(2) = 1 /\ DecryptIndexAt(2) = 1

====
